---- MODULE Spec2Model ----
(***************************************************************************)
(* Model of the Tavily search MCP server (mcp_servers/tavily_server):      *)
(* the tool registry list_tools, the dispatcher call_tool and the four     *)
(* handlers, run against a backend test double standing for tavily_client. *)
(* Python values are tagged records, dicts are functions over their keys,  *)
(* and every response text is the string the f-strings of the source build.*)
(***************************************************************************)
EXTENDS Integers, Sequences, FiniteSets, TLC

VARIABLES pc, name, arguments, backend, calls, response, raised

vars == <<pc, name, arguments, backend, calls, response, raised>>

(* ------------------------------ bounds --------------------------------- *)

\* Longest result list the backend double returns for a search.
MaxRecords == 2

\* Longest generated context string (over the alphabet ContextChars).
MaxContextLen == 3

(* --------------------------- Python values ----------------------------- *)

PNone == [t |-> "none"]
PInt(i) == [t |-> "int", v |-> i]
PStr(s) == [t |-> "str", v |-> s]
PBool(b) == [t |-> "bool", v |-> b]
PFloat(repr) == [t |-> "float", v |-> repr]
PList(xs) == [t |-> "list", v |-> xs]
PDict(f) == [t |-> "dict", v |-> f]

EmptyDict == << >>

\* str(v), as the f-strings apply it to the values they embed.
PyStr(v) ==
    CASE v.t = "str" -> v.v
      [] v.t = "int" -> ToString(v.v)
      [] v.t = "float" -> v.v
      [] v.t = "bool" -> (IF v.v THEN "True" ELSE "False")
      [] v.t = "none" -> "None"

\* bool(v): the truth value `if v:` tests.
Truthy(v) ==
    CASE v.t = "none" -> FALSE
      [] v.t = "bool" -> v.v
      [] v.t = "int" -> v.v # 0
      [] v.t = "str" -> v.v # ""
      [] v.t = "float" -> TRUE
      [] v.t = "list" -> Len(v.v) > 0
      [] v.t = "dict" -> DOMAIN v.v # {}

\* d.get(k, default) on a dict given as a function over its keys.
Get(d, k, default) == IF k \in DOMAIN d THEN d[k] ELSE default

Min(a, b) == IF a < b THEN a ELSE b
Max(a, b) == IF a > b THEN a ELSE b

\* xs[:m] for an int m: a negative m counts from the end.
PySliceToNoCut(xs, m) == xs

PySliceTo(xs, m) ==
    IF m >= 0 THEN SubSeq(xs, 1, Min(Len(xs), m))
    ELSE SubSeq(xs, 1, Max(Len(xs) + m, 0))

\* Whitespace as str.split() with no argument sees it.
IsSpace(c) == c \in {" ", "\t", "\n", "\r", "\f"}

RECURSIVE SplitFrom(_, _, _)
\* The words of s from position i on; cur is the word being read.
SplitFrom(s, i, cur) ==
    IF i > Len(s) THEN (IF cur = "" THEN << >> ELSE <<cur>>)
    ELSE LET c == SubSeq(s, i, i)
         IN IF IsSpace(c)
            THEN (IF cur = "" THEN << >> ELSE <<cur>>) \o SplitFrom(s, i + 1, "")
            ELSE SplitFrom(s, i + 1, cur \o c)

RECURSIVE SplitOnSpaceFrom(_, _, _)
SplitOnSpaceFrom(s, i, cur) ==
    IF i > Len(s) THEN <<cur>>
    ELSE LET c == SubSeq(s, i, i)
         IN IF c = " "
            THEN <<cur>> \o SplitOnSpaceFrom(s, i + 1, "")
            ELSE SplitOnSpaceFrom(s, i + 1, cur \o c)

\* s.split(" "): one separator character, empty words kept.
PySplitOnSpace(s) == SplitOnSpaceFrom(s, 1, "")

\* s.split(): runs of whitespace separate words, none is empty.
PySplit(s) == SplitFrom(s, 1, "")

RECURSIVE Join(_)
\* "".join(parts)
Join(parts) == IF parts = << >> THEN "" ELSE Head(parts) \o Join(Tail(parts))

RECURSIVE JoinLines(_)
\* chr(10).join(parts)
JoinLines(parts) ==
    IF parts = << >> THEN ""
    ELSE IF Len(parts) = 1 THEN Head(parts)
    ELSE Head(parts) \o "\n" \o JoinLines(Tail(parts))

(* ------------------------------ results -------------------------------- *)

TextContent(text) == [type |-> "text", text |-> text]

NoExc == [type |-> "", msg |-> ""]
Exc(type, msg) == [type |-> type, msg |-> msg]

\* str(KeyError(k)) is the repr of the key.
KeyError(k) == Exc("KeyError", "'" \o k \o "'")

\* A handler's outcome: the list it returns or the exception it lets out,
\* and the backend calls it made on the way.
Return(text, made) == [ret |-> <<TextContent(text)>>, exc |-> NoExc, calls |-> made]
Raise(e, made) == [ret |-> << >>, exc |-> e, calls |-> made]

\* One call of a tavily_client method with its keyword arguments.
Call(op, params) == [op |-> op, params |-> params]

(* --------------------------- program constants ------------------------- *)

\* arguments.get("max_results", 5)
DefaultMaxResults == 5

\* arguments.get("max_tokens", 4000)
DefaultMaxTokens == 4000

\* result.get('raw_content', '')[:500]
PreviewLen == 500

\* "maxItems": 20 of the urls property
MaxItems == 20

MinMaxResults == 1
MaxMaxResults == 20
MinMaxTokens == 100
MaxMaxTokens == 8000

(* ------------------------------ list_tools ----------------------------- *)

\* The registry: each tool's name, its inputSchema properties and the
\* properties it requires, in declaration order.
list_tools ==
    << [name |-> "tavily_search",
        properties |->
            ("query" :> [type |-> "string"]) @@
            ("max_results" :> [type |-> "integer", default |-> DefaultMaxResults,
                               minimum |-> MinMaxResults, maximum |-> MaxMaxResults]) @@
            ("include_domains" :> [type |-> "array"]) @@
            ("exclude_domains" :> [type |-> "array"]),
        required |-> <<"query">>],
       [name |-> "tavily_qna_search",
        properties |-> ("query" :> [type |-> "string"]),
        required |-> <<"query">>],
       [name |-> "tavily_get_context",
        properties |->
            ("query" :> [type |-> "string"]) @@
            ("max_tokens" :> [type |-> "integer", default |-> DefaultMaxTokens,
                              minimum |-> MinMaxTokens, maximum |-> MaxMaxTokens]),
        required |-> <<"query">>],
       [name |-> "tavily_extract_content",
        properties |->
            ("urls" :> [type |-> "array", maxItems |-> MaxItems]) @@
            ("include_images" :> [type |-> "boolean", default |-> FALSE]),
        required |-> <<"urls">>] >>

(* ----------------------------- handle_search --------------------------- *)

\* What a try block produced: the text it returned, or the exception
\* that reached its except clause.
Text(s) == [text |-> s, exc |-> NoExc]
Fault(type, msg) == [text |-> "", exc |-> Exc(type, msg)]

\* One "**Result i:**" block of the search rendering.
SearchBlock(i, result) ==
    "\n**Result " \o ToString(i) \o ":**\n"
    \o "**Title:** " \o PyStr(Get(result.v, "title", PStr("N/A"))) \o "\n"
    \o "**URL:** " \o PyStr(Get(result.v, "url", PStr("N/A"))) \o "\n"
    \o "**Content:** " \o PyStr(Get(result.v, "content", PStr("N/A"))) \o "\n"
    \o "**Score:** " \o PyStr(Get(result.v, "score", PStr("N/A"))) \o "\n"
    \o "---\n"

NoResultsText == "No search results found."

\* The rendering once the blocks are built.
SearchTextEmptyString(query, results) ==
    IF results = << >> THEN Text("")
    ELSE Text("\n# Tavily Search Results for: \"" \o PyStr(query) \o "\"\n\n"
              \o "Found " \o ToString(Len(results)) \o " results:\n\n"
              \o Join(results) \o "\n\n"
              \o "**Search completed successfully.**\n")

SearchText(query, results) ==
    IF results = << >> THEN Text(NoResultsText)
    ELSE Text("\n# Tavily Search Results for: \"" \o PyStr(query) \o "\"\n\n"
              \o "Found " \o ToString(Len(results)) \o " results:\n\n"
              \o Join(results) \o "\n\n"
              \o "**Search completed successfully.**\n")

\* The "Format response" part of handle_search, on the value search returned.
FormatSearch(query, max_results, resp) ==
    IF resp.t # "dict"
    THEN Fault("TypeError", "argument of type 'NoneType' is not iterable")
    ELSE IF "results" \notin DOMAIN resp.v THEN SearchText(query, << >>)
    ELSE LET rs == resp.v["results"] IN
         IF rs.t # "list"
         THEN Fault("TypeError", "'NoneType' object is not subscriptable")
         ELSE IF max_results.t \notin {"int", "none"}
         THEN Fault("TypeError",
                    "slice indices must be integers or None or have an __index__ method")
         ELSE LET shown == IF max_results.t = "none" THEN rs.v
                           ELSE PySliceTo(rs.v, max_results.v)
              IN IF \E i \in 1..Len(shown) : shown[i].t # "dict"
                 THEN Fault("AttributeError", "'str' object has no attribute 'get'")
                 ELSE SearchText(query,
                                 [i \in 1..Len(shown) |-> SearchBlock(i, shown[i])])

\* search_params as handle_search builds it.
SearchParams(query, max_results, include_domains, exclude_domains) ==
    ("query" :> query) @@ ("max_results" :> max_results)
    @@ (IF Truthy(include_domains) THEN "include_domains" :> include_domains
        ELSE EmptyDict)
    @@ (IF Truthy(exclude_domains) THEN "exclude_domains" :> exclude_domains
        ELSE EmptyDict)

\* A handle_search that calls search again when the first call raised.
handle_search_retry(args, be) ==
    IF "query" \notin DOMAIN args THEN Raise(KeyError("query"), << >>)
    ELSE LET query == args["query"]
             max_results == Get(args, "max_results", PInt(DefaultMaxResults))
             c == Call("search", SearchParams(query, max_results,
                                              Get(args, "include_domains", PNone),
                                              Get(args, "exclude_domains", PNone)))
             made == IF be.search.raise THEN <<c, c>> ELSE <<c>>
             got == IF be.search.raise THEN Fault("Exception", be.search.msg)
                    ELSE FormatSearch(query, max_results, be.search.value)
         IN IF got.exc # NoExc THEN Return("Search failed: " \o got.exc.msg, made)
            ELSE Return(got.text, made)

\* A handle_search that reads query with .get, so a missing query is None.
handle_search_get_query(args, be) ==
    LET query == Get(args, "query", PNone)
        max_results == Get(args, "max_results", PInt(DefaultMaxResults))
        made == <<Call("search", SearchParams(query, max_results,
                                              Get(args, "include_domains", PNone),
                                              Get(args, "exclude_domains", PNone)))>>
        got == IF be.search.raise THEN Fault("Exception", be.search.msg)
               ELSE FormatSearch(query, max_results, be.search.value)
    IN IF got.exc # NoExc THEN Return("Search failed: " \o got.exc.msg, made)
       ELSE Return(got.text, made)

handle_search(args, be) ==
    IF "query" \notin DOMAIN args THEN Raise(KeyError("query"), << >>)
    ELSE LET query == args["query"]
             max_results == Get(args, "max_results", PInt(DefaultMaxResults))
             include_domains == Get(args, "include_domains", PNone)
             exclude_domains == Get(args, "exclude_domains", PNone)
             made == <<Call("search", SearchParams(query, max_results,
                                                   include_domains, exclude_domains))>>
             got == IF be.search.raise THEN Fault("Exception", be.search.msg)
                    ELSE FormatSearch(query, max_results, be.search.value)
         IN IF got.exc # NoExc THEN Return("Search failed: " \o got.exc.msg, made)
            ELSE Return(got.text, made)

(* --------------------------- handle_qna_search ------------------------- *)

handle_qna_search(args, be) ==
    IF "query" \notin DOMAIN args THEN Raise(KeyError("query"), << >>)
    ELSE LET query == args["query"]
             made == <<Call("qna_search", "query" :> query)>>
         IN IF be.qna_search.raise
            THEN Return("Q&A search failed: " \o be.qna_search.msg, made)
            ELSE Return("\n# Tavily Q&A Result for: \"" \o PyStr(query) \o "\"\n\n"
                        \o "**Answer:** " \o PyStr(be.qna_search.value) \o "\n\n"
                        \o "**Note:** This answer is generated from web sources and optimized for factual accuracy.\n",
                        made)

(* --------------------------- handle_get_context ------------------------ *)

\* The f-string of handle_get_context; context.split() needs a str.
FormatContext(query, max_tokens, context) ==
    IF context.t # "str"
    THEN Fault("AttributeError", "'NoneType' object has no attribute 'split'")
    ELSE Text("\n# Tavily Context for: \"" \o PyStr(query) \o "\"\n\n"
              \o "## Generated Context:\n\n"
              \o context.v \o "\n\n"
              \o "---\n"
              \o "**Context Length:** ~" \o ToString(Len(PySplit(context.v))) \o " words\n"
              \o "**Max Tokens Requested:** " \o PyStr(max_tokens) \o "\n\n"
              \o "**Note:** This context is compiled from multiple web sources and formatted for RAG applications.\n")

handle_get_context(args, be) ==
    IF "query" \notin DOMAIN args THEN Raise(KeyError("query"), << >>)
    ELSE LET query == args["query"]
             max_tokens == Get(args, "max_tokens", PInt(DefaultMaxTokens))
             made == <<Call("get_search_context",
                            ("query" :> query) @@ ("max_tokens" :> max_tokens))>>
             got == IF be.get_search_context.raise
                    THEN Fault("Exception", be.get_search_context.msg)
                    ELSE FormatContext(query, max_tokens, be.get_search_context.value)
         IN IF got.exc # NoExc
            THEN Return("Context retrieval failed: " \o got.exc.msg, made)
            ELSE Return(got.text, made)

(* ------------------------ handle_extract_content ----------------------- *)

\* One "**Extract i:**" block: the preview is capped, the length is not.
ExtractBlock(i, result, include_images) ==
    LET raw == Get(result.v, "raw_content", PStr("")).v
        content_preview == SubSeq(raw, 1, Min(Len(raw), PreviewLen))
                           \o (IF Len(raw) > PreviewLen THEN "..." ELSE "")
        images == Get(result.v, "images", PNone)
    IN "\n**Extract " \o ToString(i) \o ":**\n"
       \o "**URL:** " \o PyStr(Get(result.v, "url", PStr("N/A"))) \o "\n"
       \o "**Content Preview:** " \o content_preview \o "\n"
       \o "**Full Content Length:** " \o ToString(Len(raw)) \o " characters\n"
       \o (IF Truthy(include_images) /\ Truthy(images)
           THEN "**Images Found:** " \o ToString(Len(images.v)) \o " images\n"
           ELSE "")
       \o "---\n"

FailedLine(failed) ==
    "- " \o PyStr(Get(failed.v, "url", PStr("Unknown URL"))) \o ": "
    \o PyStr(Get(failed.v, "error", PStr("Unknown error")))

\* The formatting part of handle_extract_content, on the value extract returned.
FormatExtract(include_images, resp) ==
    IF resp.t # "dict"
    THEN Fault("TypeError", "argument of type 'NoneType' is not iterable")
    ELSE LET rs == IF "results" \in DOMAIN resp.v THEN resp.v["results"].v ELSE << >>
             fs == IF "failed_results" \in DOMAIN resp.v
                      /\ Truthy(resp.v["failed_results"])
                   THEN resp.v["failed_results"].v ELSE << >>
             results == [i \in 1..Len(rs) |-> ExtractBlock(i, rs[i], include_images)]
             failed_results == [i \in 1..Len(fs) |-> FailedLine(fs[i])]
         IN Text("\n# Tavily Content Extraction Results\n\n"
                 \o "## Successfully Extracted (" \o ToString(Len(results)) \o " URLs):\n\n"
                 \o (IF results # << >> THEN Join(results)
                     ELSE "No content successfully extracted.") \o "\n\n"
                 \o "## Failed Extractions (" \o ToString(Len(failed_results)) \o " URLs):\n\n"
                 \o (IF failed_results # << >> THEN JoinLines(failed_results)
                     ELSE "No failed extractions.") \o "\n\n"
                 \o "**Extraction completed.**\n")

handle_extract_content(args, be) ==
    IF "urls" \notin DOMAIN args THEN Raise(KeyError("urls"), << >>)
    ELSE LET urls == args["urls"]
             include_images == Get(args, "include_images", PBool(FALSE))
         IN IF urls.t # "list"
            THEN Raise(Exc("TypeError", "object of type 'int' has no len()"), << >>)
            ELSE LET made == <<Call("extract", ("urls" :> urls)
                                               @@ ("include_images" :> include_images))>>
                     got == IF be.extract.raise THEN Fault("Exception", be.extract.msg)
                            ELSE FormatExtract(include_images, be.extract.value)
                 IN IF got.exc # NoExc
                    THEN Return("Content extraction failed: " \o got.exc.msg, made)
                    ELSE Return(got.text, made)

(* -------------------------------- call_tool ---------------------------- *)

\* A chain whose else branch runs the general search.
DispatchFallThrough(nm, args, be) ==
    IF nm = "tavily_qna_search" THEN handle_qna_search(args, be)
    ELSE IF nm = "tavily_get_context" THEN handle_get_context(args, be)
    ELSE IF nm = "tavily_extract_content" THEN handle_extract_content(args, be)
    ELSE handle_search(args, be)

\* A chain whose second branch runs the wrong handler.
DispatchMisrouted(nm, args, be) ==
    IF nm = "tavily_search" THEN handle_search(args, be)
    ELSE IF nm = "tavily_qna_search" THEN handle_search(args, be)
    ELSE IF nm = "tavily_get_context" THEN handle_get_context(args, be)
    ELSE IF nm = "tavily_extract_content" THEN handle_extract_content(args, be)
    ELSE Raise(Exc("ValueError", "Unknown tool: " \o nm), << >>)

\* The if/elif chain inside call_tool's try.
Dispatch(nm, args, be) ==
    IF nm = "tavily_search" THEN handle_search(args, be)
    ELSE IF nm = "tavily_qna_search" THEN handle_qna_search(args, be)
    ELSE IF nm = "tavily_get_context" THEN handle_get_context(args, be)
    ELSE IF nm = "tavily_extract_content" THEN handle_extract_content(args, be)
    ELSE Raise(Exc("ValueError", "Unknown tool: " \o nm), << >>)

\* A call_tool without its except clause.
call_tool_no_except(nm, args, be) == Dispatch(nm, args, be)

call_tool(nm, args, be) ==
    LET h == Dispatch(nm, args, be)
    IN IF h.exc # NoExc
       THEN [ret |-> <<TextContent("Error: " \o h.exc.msg)>>, exc |-> NoExc,
             calls |-> h.calls]
       ELSE h

(* ------------------------- the backend test double --------------------- *)

Ok(v) == [raise |-> FALSE, msg |-> "", value |-> v]
Raises(m) == [raise |-> TRUE, msg |-> m, value |-> PNone]

SeqsUpTo(S, n) == UNION {[1..k -> S] : k \in 0..n}

ContextChars == {"a", " "}

RECURSIVE Strings(_)
\* Every string over ContextChars of length at most n.
Strings(n) ==
    IF n = 0 THEN {""}
    ELSE LET S == Strings(n - 1) IN S \cup {s \o c : s \in S, c \in ContextChars}

RECURSIVE Repeat(_, _)
\* s * n, by halving.
Repeat(s, n) ==
    IF n = 0 THEN ""
    ELSE LET half == Repeat(s, n \div 2)
         IN half \o half \o (IF n % 2 = 1 THEN s ELSE "")

Record1 ==
    PDict(("title" :> PStr("Alpha")) @@ ("url" :> PStr("https://a.example"))
          @@ ("content" :> PStr("first")) @@ ("score" :> PFloat("0.98")))
Record2 == PDict("title" :> PStr("Beta"))

ErrorMessages == {"", "timeout", "No search results found."}

\* n records, Record1 and Record2 in turn.
Records(n) == [i \in 1..n |-> IF i % 2 = 1 THEN Record1 ELSE Record2]

SearchOutcomes ==
    {Raises(m) : m \in ErrorMessages}
    \cup {Ok(PNone), Ok(PDict(EmptyDict)), Ok(PDict("results" :> PNone)),
          Ok(PDict("results" :> PList(<<Record1, PStr("junk")>>))),
          Ok(PDict("results" :> PList(Records(DefaultMaxResults + 1)))),
          Ok(PDict("results" :> PList(Records(MaxMaxResults + 1))))}
    \cup {Ok(PDict("results" :> PList(rs))) : rs \in SeqsUpTo({Record1, Record2}, MaxRecords)}

QnaOutcomes == {Raises("timeout"), Ok(PStr("Paris")), Ok(PNone)}

TenWords == "the quick brown fox jumps over the lazy dog again"

ContextOutcomes ==
    {Raises("timeout"), Ok(PNone), Ok(PStr(TenWords)), Ok(PStr(" a\n b\tc  d \n"))}
    \cup {Ok(PStr(s)) : s \in Strings(MaxContextLen)}

Extract1 ==
    PDict(("url" :> PStr("https://a.example"))
          @@ ("raw_content" :> PStr(Repeat("a", PreviewLen + 1)))
          @@ ("images" :> PList(<<PStr("i1.png"), PStr("i2.png")>>)))
Extract2 == PDict(("url" :> PStr("https://b.example")) @@ ("raw_content" :> PStr("short")))
Failed1 == PDict(("url" :> PStr("https://c.example")) @@ ("error" :> PStr("HTTP 404")))

ExtractOutcomes ==
    {Raises("timeout"), Ok(PNone), Ok(PDict(EmptyDict)),
     Ok(PDict(("results" :> PList(<< >>)) @@ ("failed_results" :> PList(<< >>)))),
     Ok(PDict(("results" :> PList(<<Extract1, Extract2>>))
              @@ ("failed_results" :> PList(<<Failed1>>))))}

DefaultBackend ==
    [search |-> Ok(PDict("results" :> PList(<< >>))),
     qna_search |-> Ok(PStr("Paris")),
     get_search_context |-> Ok(PStr("a b")),
     extract |-> Ok(PDict(EmptyDict))]

\* The doubles: one method's behaviour varies, the others keep their default.
Backends ==
    {[DefaultBackend EXCEPT !.search = o] : o \in SearchOutcomes}
    \cup {[DefaultBackend EXCEPT !.qna_search = o] : o \in QnaOutcomes}
    \cup {[DefaultBackend EXCEPT !.get_search_context = o] : o \in ContextOutcomes}
    \cup {[DefaultBackend EXCEPT !.extract = o] : o \in ExtractOutcomes}

(* ------------------------------- requests ------------------------------ *)

ToolNames == {list_tools[i].name : i \in DOMAIN list_tools}

Names == ToolNames \cup {"tavily", "calculate"}

\* A key that is absent, or present with one of the values.
Opt(k, values) == {EmptyDict} \cup {k :> v : v \in values}

Urls(n) == PList([i \in 1..n |-> PStr("https://e.example/" \o ToString(i))])

SearchArguments ==
    {q @@ m @@ d :
        q \in Opt("query", {PStr("x"), PInt(7)}),
        m \in Opt("max_results",
                  {PInt(MinMaxResults - 1), PInt(MinMaxResults), PInt(2),
                   PInt(MaxMaxResults), PInt(MaxMaxResults + 1), PInt(-1),
                   PStr("many"), PNone}),
        d \in {EmptyDict,
               "include_domains" :> PList(<<PStr("a.example")>>),
               ("include_domains" :> PList(<< >>))
               @@ ("exclude_domains" :> PList(<<PStr("b.example")>>))}}

ContextArguments ==
    {q @@ m :
        q \in Opt("query", {PStr("x")}),
        m \in Opt("max_tokens",
                  {PInt(MinMaxTokens - 1), PInt(MinMaxTokens), PInt(500),
                   PInt(MaxMaxTokens), PInt(MaxMaxTokens + 1)})}

ExtractArguments ==
    {u @@ i :
        u \in Opt("urls", {Urls(0), Urls(1), Urls(MaxItems), Urls(MaxItems + 1), PInt(5)}),
        i \in Opt("include_images", {PBool(TRUE), PBool(FALSE)})}

Arguments == SearchArguments \cup ContextArguments \cup ExtractArguments

(* ----------------------------- state machine --------------------------- *)

Init ==
    /\ pc = "idle"
    /\ name = ""
    /\ arguments = EmptyDict
    /\ backend = DefaultBackend
    /\ calls = << >>
    /\ response = << >>
    /\ raised = NoExc

\* The transport hands call_tool a request; the double is set up for it.
Request ==
    /\ pc = "idle"
    /\ \E nm \in Names, args \in Arguments, be \in Backends :
          /\ name' = nm
          /\ arguments' = args
          /\ backend' = be
    /\ pc' = "received"
    /\ calls' = << >>
    /\ response' = << >>
    /\ raised' = NoExc

\* call_tool runs to its return (or to the exception that leaves it).
CallTool ==
    /\ pc = "received"
    /\ LET r == call_tool(name, arguments, backend)
       IN /\ calls' = r.calls
          /\ response' = r.ret
          /\ raised' = r.exc
    /\ pc' = "responded"
    /\ UNCHANGED <<name, arguments, backend>>

\* The transport takes the response; nothing of the invocation is kept.
Respond ==
    /\ pc = "responded"
    /\ pc' = "idle"
    /\ name' = ""
    /\ arguments' = EmptyDict
    /\ backend' = DefaultBackend
    /\ calls' = << >>
    /\ response' = << >>
    /\ raised' = NoExc

Next ==
    \/ Request
    \/ CallTool
    \/ Respond

Spec == Init /\ [][Next]_vars

(* ------------------------- vocabulary of the claims -------------------- *)

StartsWith(s, p) == Len(s) >= Len(p) /\ SubSeq(s, 1, Len(p)) = p
EndsWith(s, p) == Len(s) >= Len(p) /\ SubSeq(s, Len(s) - Len(p) + 1, Len(s)) = p
Occurrences(s, p) == {i \in 1..(Len(s) - Len(p) + 1) : SubSeq(s, i, i + Len(p) - 1) = p}
Contains(s, p) == Occurrences(s, p) # {}

Responded == pc = "responded"

\* The invocation ended by returning one text and letting no exception out.
OneText == raised = NoExc /\ Len(response) = 1 /\ response[1].type = "text"

TheText == response[1].text

\* An error text that names parameter or tool p.
ErrorNaming(p) == OneText /\ StartsWith(TheText, "Error: ") /\ Contains(TheText, p)

Tool(nm) == CHOOSE t \in {list_tools[i] : i \in DOMAIN list_tools} : t.name = nm

\* The required parameters of nm that args lacks, in declaration order.
MissingRequired(nm, args) ==
    SelectSeq(Tool(nm).required, LAMBDA p : p \notin DOMAIN args)

PyType(schemaType) ==
    CASE schemaType = "string" -> "str"
      [] schemaType = "integer" -> "int"
      [] schemaType = "boolean" -> "bool"
      [] schemaType = "array" -> "list"

\* Value v is outside the inclusive [minimum, maximum] property ps declares.
OutOfRange(ps, v) ==
    /\ "minimum" \in DOMAIN ps
    /\ v.t = "int"
    /\ (v.v < ps.minimum \/ v.v > ps.maximum)

TooManyItems(ps, v) ==
    /\ "maxItems" \in DOMAIN ps
    /\ v.t = "list"
    /\ Len(v.v) > ps.maxItems

\* args has every required parameter of nm, and every declared parameter
\* it gives has the declared type.
WellTyped(nm, args) ==
    /\ MissingRequired(nm, args) = << >>
    /\ \A p \in DOMAIN args \cap DOMAIN Tool(nm).properties :
          args[p].t = PyType(Tool(nm).properties[p].type)

\* args is valid for tool nm by the inputSchema list_tools declares.
Conforms(nm, args) ==
    /\ WellTyped(nm, args)
    /\ \A p \in DOMAIN args \cap DOMAIN Tool(nm).properties :
          /\ ~OutOfRange(Tool(nm).properties[p], args[p])
          /\ ~TooManyItems(Tool(nm).properties[p], args[p])

\* The backend call of this invocation raised.
BackendFailed == calls # << >> /\ backend[calls[1].op].raise

(* --------------------------------- claims ------------------------------ *)

\* C1: every invocation of call_tool, whatever the name, the arguments and
\* the backend's behaviour, ends by returning exactly one non-empty text;
\* no exception leaves call_tool.
C1_AlwaysOneText == Responded => OneText /\ TheText # ""

\* C1 witness: a handler raised (urls is an int, len(urls) fails outside the
\* handler's try) and call_tool still returned one text.
C1_Witness ==
    /\ Responded
    /\ name = "tavily_extract_content"
    /\ "urls" \in DOMAIN arguments /\ arguments["urls"].t = "int"
    /\ OneText /\ TheText = "Error: object of type 'int' has no len()"

\* C2: for a name that is none of the registered tool names, call_tool
\* returns an error text containing that name, does not throw, and calls no
\* backend method.
C2_UnknownToolReported ==
    Responded /\ name \notin ToolNames => ErrorNaming(name) /\ calls = << >>

C2_Witness ==
    /\ Responded
    /\ name = "calculate"
    /\ "query" \in DOMAIN arguments
    /\ response = <<TextContent("Error: Unknown tool: calculate")>>

\* C3: for a registered tool whose required parameter is absent, the
\* response is an error text naming the first missing required parameter
\* (declaration order) and the backend is never called.
C3_MissingRequiredReported ==
    Responded /\ name \in ToolNames /\ MissingRequired(name, arguments) # << >>
    => ErrorNaming(Head(MissingRequired(name, arguments))) /\ calls = << >>

C3_Witness ==
    /\ Responded
    /\ name = "tavily_search"
    /\ "query" \notin DOMAIN arguments
    /\ "max_results" \in DOMAIN arguments
    /\ response = <<TextContent("Error: 'query'")>>

\* C4 (as claimed): an integer parameter outside its declared
\* [minimum, maximum] makes the invocation fail with an error on that
\* parameter, and the backend is never invoked.
C4_OutOfRangeRejected ==
    Responded /\ name \in ToolNames /\ WellTyped(name, arguments)
    => \A p \in DOMAIN arguments \cap DOMAIN Tool(name).properties :
          OutOfRange(Tool(name).properties[p], arguments[p])
          => ErrorNaming(p) /\ calls = << >>

\* C5 (as claimed): content extraction with more urls than maxItems fails
\* with an error on urls and the backend extract method is not called.
C5_TooManyUrlsRejected ==
    /\ Responded
    /\ name = "tavily_extract_content"
    /\ WellTyped(name, arguments)
    /\ TooManyItems(Tool(name).properties["urls"], arguments["urls"])
    => ErrorNaming("urls") /\ calls = << >>

FailurePrefix(nm) ==
    CASE nm = "tavily_search" -> "Search failed: "
      [] nm = "tavily_qna_search" -> "Q&A search failed: "
      [] nm = "tavily_get_context" -> "Context retrieval failed: "
      [] nm = "tavily_extract_content" -> "Content extraction failed: "

\* C6: no retries: an invocation calls the backend at most once, and when
\* that call fails it returns exactly one failure text, made of the
\* capability's failure prefix and the error message.
C6_NoRetry ==
    /\ Len(calls) <= 1
    /\ Responded /\ BackendFailed
       => OneText /\ TheText = FailurePrefix(name) \o backend[calls[1].op].msg

C6_Witness ==
    /\ Responded
    /\ name = "tavily_search"
    /\ backend.search.raise
    /\ Len(calls) = 1
    /\ response = <<TextContent("Search failed: timeout")>>

EmptyResults == Ok(PDict("results" :> PList(<< >>)))

\* C7: general search with valid arguments and an empty result list answers
\* with the fixed no-results sentence, which is not empty, is no error or
\* failure text, and differs from every text of an invocation whose backend
\* call failed.
C7_NoResultsDistinct ==
    /\ Responded /\ name = "tavily_search" /\ Conforms(name, arguments)
       /\ backend.search = EmptyResults
       => /\ OneText
          /\ TheText = "No search results found."
          /\ ~StartsWith(TheText, "Search failed") /\ ~StartsWith(TheText, "Error")
    /\ Responded /\ BackendFailed
       => OneText /\ TheText # "No search results found."

C7_Witness ==
    /\ Responded
    /\ name = "tavily_search"
    /\ arguments = ("query" :> PStr("x")) @@ ("max_results" :> PInt(2))
    /\ backend.search = EmptyResults
    /\ Len(calls) = 1
    /\ response = <<TextContent("No search results found.")>>

\* The number of places of s where a word begins: a non-space character
\* at the start of s or right after a whitespace character.
WordStarts(s) ==
    Cardinality({i \in 1..Len(s) :
                    /\ ~IsSpace(SubSeq(s, i, i))
                    /\ (i = 1 \/ IsSpace(SubSeq(s, i - 1, i - 1)))})

\* C8: a successful context retrieval reports the number of
\* whitespace-separated words of the context the backend returned, and the
\* max_tokens of the request (4000 when the request gives none).
C8_WordCountOfReturnedText ==
    /\ Responded
    /\ name = "tavily_get_context"
    /\ "query" \in DOMAIN arguments
    /\ ~backend.get_search_context.raise
    /\ backend.get_search_context.value.t = "str"
    => /\ OneText
       /\ StartsWith(TheText, "\n# Tavily Context for: ")
       /\ EndsWith(TheText,
             "\n\n---\n**Context Length:** ~"
             \o ToString(WordStarts(backend.get_search_context.value.v))
             \o " words\n**Max Tokens Requested:** "
             \o PyStr(Get(arguments, "max_tokens", PInt(4000)))
             \o "\n\n**Note:** This context is compiled from multiple web sources and formatted for RAG applications.\n")

\* C8 witness: the ten-word context with max_tokens 500 reports 10 words.
C8_Witness ==
    /\ Responded
    /\ name = "tavily_get_context"
    /\ arguments = ("query" :> PStr("x")) @@ ("max_tokens" :> PInt(500))
    /\ backend.get_search_context = Ok(PStr(TenWords))
    /\ OneText
    /\ Contains(TheText, "**Context Length:** ~10 words\n**Max Tokens Requested:** 500\n")

\* A general search whose max_results is absent or an int in 1..20 and whose
\* backend call returned a list of records.
SuccessfulSearch ==
    /\ Responded
    /\ name = "tavily_search"
    /\ Conforms(name, arguments)
    /\ ~backend.search.raise
    /\ backend.search.value.t = "dict"
    /\ "results" \in DOMAIN backend.search.value.v
    /\ backend.search.value.v["results"].t = "list"
    /\ \A i \in DOMAIN backend.search.value.v["results"].v :
          backend.search.value.v["results"].v[i].t = "dict"

Returned == backend.search.value.v["results"].v

\* min(n, m) for the request's max_results m (5 when absent).
Shown == Min(Len(Returned), Get(arguments, "max_results", PInt(5)).v)

\* The response renders blocks 1..k of the returned records, in order, and
\* no other block, and its count summary states k.
RendersFirst(k) ==
    /\ OneText
    /\ Cardinality(Occurrences(TheText, "\n**Result ")) = k
    /\ \A i \in 1..k :
          Contains(TheText,
                   "\n**Result " \o ToString(i) \o ":**\n**Title:** "
                   \o PyStr(Get(Returned[i].v, "title", PStr("N/A"))) \o "\n")
    /\ Contains(TheText, "\nFound " \o ToString(k) \o " results:\n")

\* C9 (as claimed): every successful general search renders min(n, m)
\* blocks and a count summary stating min(n, m), for every n.
C9_AsClaimed == SuccessfulSearch => RendersFirst(Shown)

\* C9 (amended): for n >= 1 returned records the response renders exactly
\* min(n, m) blocks, numbered 1..min(n, m) in the backend's order, and the
\* count summary states min(n, m); for n = 0 it is the no-results sentence,
\* with no block and no count summary.
C9_Truncation ==
    SuccessfulSearch
    => IF Len(Returned) >= 1 THEN RendersFirst(Shown)
       ELSE /\ OneText
            /\ TheText = "No search results found."

\* C9 witness: more records returned than asked for, the response shows
\* max_results of them.
C9_Witness ==
    /\ SuccessfulSearch
    /\ "max_results" \in DOMAIN arguments
    /\ arguments["max_results"] = PInt(1)
    /\ Len(Returned) = 2
    /\ Returned[1] = Record2
    /\ Contains(TheText, "\nFound 1 results:\n")
    /\ Contains(TheText, "**Title:** Beta\n")

BackendOp(nm) ==
    CASE nm = "tavily_search" -> "search"
      [] nm = "tavily_qna_search" -> "qna_search"
      [] nm = "tavily_get_context" -> "get_search_context"
      [] nm = "tavily_extract_content" -> "extract"

SuccessHeading(nm) ==
    CASE nm = "tavily_search" -> "\n# Tavily Search Results for: "
      [] nm = "tavily_qna_search" -> "\n# Tavily Q&A Result for: "
      [] nm = "tavily_get_context" -> "\n# Tavily Context for: "
      [] nm = "tavily_extract_content" -> "\n# Tavily Content Extraction Results\n"

\* C10: a registered tool invoked with valid arguments calls exactly the
\* backend method of its name, no other, and answers with that capability's
\* own rendering (its heading, its failure prefix, or the no-results
\* sentence of the general search).
C10_RoutingExact ==
    Responded /\ name \in ToolNames /\ Conforms(name, arguments)
    => /\ Len(calls) = 1
       /\ \A i \in DOMAIN calls : calls[i].op = BackendOp(name)
       /\ OneText
       /\ \/ StartsWith(TheText, SuccessHeading(name))
          \/ StartsWith(TheText, FailurePrefix(name))
          \/ name = "tavily_search" /\ TheText = "No search results found."

C10_Witness ==
    /\ Responded
    /\ name = "tavily_qna_search"
    /\ Conforms(name, arguments)
    /\ backend.qna_search = Ok(PStr("Paris"))
    /\ calls = <<Call("qna_search", "query" :> PStr("x"))>>
    /\ OneText
    /\ Contains(TheText, "**Answer:** Paris\n")

====
